---- MODULE Spec2Model ----
(***************************************************************************)
(* Model of pymodbus/bit_read_message.py: the read-coils and               *)
(* read-discrete-inputs requests and the lazily decoded, dual              *)
(* representation response (bit list / packed byte string).                *)
(*                                                                         *)
(* Python values are modelled as follows.                                  *)
(*   - An attribute that holds None or a value is a sequence of length 0   *)
(*     (None) or 1 (Some(v)).                                              *)
(*   - A byte string is a sequence of integers in 0..255, a bit list a     *)
(*     sequence of BOOLEAN.  Python index i is TLA+ index i+1.             *)
(*   - A method is an operator from the object (a record of its            *)
(*     attributes) and the arguments to a record holding the object after  *)
(*     the call (self), the returned value (ret) and the name of the       *)
(*     exception raised (exc, "" when the call returns normally).          *)
(* The module is Python 2 code (decode passes data[0] to struct.unpack),   *)
(* so str is the byte string type and indexing it yields a str.            *)
(***************************************************************************)
EXTENDS Integers, Sequences, FiniteSets, TLC

VARIABLES
  live,     \* a response object exists (its constructor returned)
  resp,     \* the response object: its attributes
  last,     \* the call just made: its name, arguments and exception
  ret,      \* the value the call just made returned
  req,      \* the request object: function_code, address, count
  context,  \* the datastore's answers to validate and getValues
  result,   \* what execute returned, and the datastore calls it made
  wire,     \* the bytes produced by the last encode
  peer,     \* the response object on the receiving side of the wire
  peerreq   \* the request object on the receiving side of the wire

vars == <<live, resp, last, ret, req, context, result, wire, peer, peerreq>>

-----------------------------------------------------------------------------
(* Bounds of the model *)

\* longest bit list handed to the constructor or to the bits setter
MaxBits == 3
\* longest raw byte string handed to the constructor or to the raw_bits setter
MaxRaw == 1
\* largest bit address handed to setBit, resetBit and getBit
MaxIndex == 3
\* longest bit list sent through the encode/decode round trip
MaxLen == 9
\* longest payload handed to the request's decode
MaxData == 5

\* byte values used in raw strings and response payloads
ByteVals == {1, 130}
\* values handed to setBit
BitArgs == {0, 2}
\* byte values used in request payloads (0x07 0xd0 is 2000)
ReqByteVals == {7, 208}
\* addresses and counts requests are constructed with
Addresses == {0, 255, 4660, 65535, 65536}
Counts == {0, 1, 2000, 2001}

-----------------------------------------------------------------------------
(* Python values *)

None == <<>>
Some(x) == <<x>>
Val(o) == o[1]

\* x or d, for x an optional sequence: None and the empty sequence are falsy
OrElse(o, d) == IF o = None \/ Val(o) = <<>> THEN d ELSE Val(o)

SeqsUpTo(S, n) == UNION {[1..k -> S] : k \in 0..n}

\* elements of a Python list handed to the constructor: ints (bool is a
\* subclass of int) and floats (v = 0 stands for 0.0, v = 1 for 1.5)
Elem == [t : {"int", "float"}, v : {0, 1}] \cup {[t |-> "int", v |-> 2]}

PyNone == [tag |-> "None", items |-> <<>>, bytes |-> <<>>, v |-> 0]
PyFloat(x) == [tag |-> "float", items |-> <<>>, bytes |-> <<>>, v |-> x]
PyList(s) == [tag |-> "list", items |-> s, bytes |-> <<>>, v |-> 0]
PyStr(b) == [tag |-> "str", items |-> <<>>, bytes |-> b, v |-> 0]

\* the values handed to a response constructor
Values ==
  {PyNone} \cup {PyFloat(x) : x \in {0, 1}}
    \cup {PyList(s) : s \in SeqsUpTo(Elem, MaxBits)}
    \cup {PyStr(b) : b \in SeqsUpTo(ByteVals, MaxRaw)}

\* truth value of a Python object
Truth(values) ==
  CASE values.tag = "None" -> FALSE
    [] values.tag = "float" -> values.v # 0
    [] values.tag = "list" -> Len(values.items) > 0
    [] values.tag = "str" -> Len(values.bytes) > 0

\* bool(v) for a list element
Bool(e) == e.v # 0

-----------------------------------------------------------------------------
(* pymodbus.utilities: the bit codec *)

Pow2(n) == IF n = 0 THEN 1 ELSE IF n = 1 THEN 2 ELSE IF n = 2 THEN 4
           ELSE IF n = 3 THEN 8 ELSE IF n = 4 THEN 16 ELSE IF n = 5 THEN 32
           ELSE IF n = 6 THEN 64 ELSE 128

RECURSIVE PackByte(_, _, _)
\* value of byte k (from 0) of the packing of bits, summing bits j..7
PackByte(bits, k, j) ==
  IF j > 7 THEN 0
  ELSE (IF 8 * k + j + 1 <= Len(bits) /\ bits[8 * k + j + 1] THEN Pow2(j) ELSE 0)
       + PackByte(bits, k, j + 1)

pack_bitstring(bits) ==
  [k \in 1..((Len(bits) + 7) \div 8) |-> PackByte(bits, k - 1, 0)]

unpack_bitstring(string) ==
  [i \in 1..(8 * Len(string)) |->
     ((string[((i - 1) \div 8) + 1] \div Pow2((i - 1) % 8)) % 2) = 1]

-----------------------------------------------------------------------------
(* ReadBitsResponseBase *)

\* the object before __init__ has assigned anything; _byte_count is not
\* assigned by __init__, so the attribute does not exist until a setter or
\* decode creates it
NewObject ==
  [_bits |-> None, _raw_bits |-> None,
   has_byte_count |-> FALSE, _byte_count |-> None]

ReadBitsResponseBase_init(values) ==
  LET self == NewObject IN
  IF ~Truth(values) THEN [self |-> self, exc |-> ""]
  ELSE IF values.tag = "float"
    THEN [self |-> self, exc |-> "TypeError"]  \* values[0]: not subscriptable
  ELSE IF values.tag = "list" /\ values.items[1].t = "int"
    THEN [self |-> [self EXCEPT !._bits =
                      Some([i \in 1..Len(values.items) |-> Bool(values.items[i])])],
          exc |-> ""]
  ELSE IF values.tag = "str"
    THEN [self |-> [self EXCEPT !._raw_bits = Some(values.bytes)], exc |-> ""]
  ELSE [self |-> self, exc |-> "TypeError"]

bits_getter(self) ==
  IF self._bits = None
    THEN LET b == unpack_bitstring(OrElse(self._raw_bits, <<>>))
         IN [self |-> [self EXCEPT !._bits = Some(b)], ret |-> b]
    ELSE [self |-> self, ret |-> Val(self._bits)]

\* a bits setter that leaves the cached raw representation in place
bits_setter_KeepsRaw(self, newbits) ==
  [self EXCEPT !._bits = Some(newbits),
               !.has_byte_count = TRUE, !._byte_count = None]

bits_setter(self, newbits) ==
  [self EXCEPT !._bits = Some(newbits), !._raw_bits = None,
               !.has_byte_count = TRUE, !._byte_count = None]

\* a raw_bits getter that drops the bit list once it has packed it
raw_bits_getter_DropsBits(self) ==
  IF self._raw_bits = None
    THEN LET r == pack_bitstring(OrElse(self._bits, <<>>))
         IN [self |-> [self EXCEPT !._raw_bits = Some(r), !._bits = None],
             ret |-> r]
    ELSE [self |-> self, ret |-> Val(self._raw_bits)]

raw_bits_getter(self) ==
  IF self._raw_bits = None
    THEN LET r == pack_bitstring(OrElse(self._bits, <<>>))
         IN [self |-> [self EXCEPT !._raw_bits = Some(r)], ret |-> r]
    ELSE [self |-> self, ret |-> Val(self._raw_bits)]

raw_bits_setter(self, newbits) ==
  [self EXCEPT !._raw_bits = Some(newbits), !._bits = None,
               !.has_byte_count = TRUE, !._byte_count = None]

byte_count(self) ==
  IF ~self.has_byte_count
    THEN [self |-> self, ret |-> 0, exc |-> "AttributeError"]
  ELSE IF self._byte_count = None
    THEN LET r == raw_bits_getter(self)
         IN [self |-> [r.self EXCEPT !._byte_count = Some(Len(r.ret))],
             ret |-> Len(r.ret), exc |-> ""]
  ELSE [self |-> self, ret |-> Val(self._byte_count), exc |-> ""]

\* an encode that writes the cached byte count when there is one
ReadBitsResponseBase_encode_UsesByteCount(self) ==
  LET r == raw_bits_getter(self)
      n == IF self.has_byte_count /\ self._byte_count # None
             THEN Val(self._byte_count) ELSE Len(r.ret)
  IN IF n > 255
       THEN [self |-> r.self, ret |-> <<>>, exc |-> "struct.error"]
       ELSE [self |-> r.self, ret |-> <<n>> \o r.ret, exc |-> ""]

ReadBitsResponseBase_encode(self) ==
  LET r == raw_bits_getter(self) IN
  IF Len(r.ret) > 255
    THEN [self |-> r.self, ret |-> <<>>, exc |-> "struct.error"]
    ELSE [self |-> r.self, ret |-> <<Len(r.ret)>> \o r.ret, exc |-> ""]

\* a decode that keeps the byte count prefix in the raw representation
ReadBitsResponseBase_decode_KeepsPrefix(self, data) ==
  IF Len(data) = 0
    THEN [self |-> self, exc |-> "IndexError"]
    ELSE [self |-> [self EXCEPT !.has_byte_count = TRUE,
                                !._byte_count = Some(data[1]),
                                !._raw_bits = Some(data),
                                !._bits = None],
          exc |-> ""]

\* a decode that refuses data whose first byte is not the number of bytes
\* that follow
ReadBitsResponseBase_decode_ChecksCount(self, data) ==
  IF Len(data) = 0
    THEN [self |-> self, exc |-> "IndexError"]
  ELSE IF data[1] # Len(data) - 1
    THEN [self |-> self, exc |-> "ValueError"]
  ELSE [self |-> [self EXCEPT !.has_byte_count = TRUE,
                              !._byte_count = Some(data[1]),
                              !._raw_bits = Some(Tail(data)),
                              !._bits = None],
        exc |-> ""]

\* a decode that leaves the cached bit list in place
ReadBitsResponseBase_decode_KeepsBits(self, data) ==
  IF Len(data) = 0
    THEN [self |-> self, exc |-> "IndexError"]
    ELSE [self |-> [self EXCEPT !.has_byte_count = TRUE,
                                !._byte_count = Some(data[1]),
                                !._raw_bits = Some(Tail(data))],
          exc |-> ""]

ReadBitsResponseBase_decode(self, data) ==
  IF Len(data) = 0
    THEN [self |-> self, exc |-> "IndexError"]  \* data[0]
    ELSE [self |-> [self EXCEPT !.has_byte_count = TRUE,
                                !._byte_count = Some(data[1]),
                                !._raw_bits = Some(Tail(data)),
                                !._bits = None],
          exc |-> ""]

\* a setBit that stores the bit one position too low
setBit_WrongIndex(self, address, value) ==
  LET g == bits_getter(self) IN
  IF address >= Len(g.ret)
    THEN [self |-> g.self, exc |-> "IndexError"]
    ELSE [self |-> [g.self EXCEPT
                      !._bits = Some([g.ret EXCEPT
                                        ![IF address = 0 THEN 1 ELSE address] =
                                          (value # 0)]),
                      !._raw_bits = None],
          exc |-> ""]

\* a setBit that leaves the cached raw representation in place
setBit_KeepsRaw(self, address, value) ==
  LET g == bits_getter(self) IN
  IF address >= Len(g.ret)
    THEN [self |-> g.self, exc |-> "IndexError"]
    ELSE [self |-> [g.self EXCEPT
                      !._bits = Some([g.ret EXCEPT ![address + 1] = (value # 0)])],
          exc |-> ""]

\* a setBit that grows the bit list to reach an address beyond its end
setBit_Grows(self, address, value) ==
  LET g == bits_getter(self)
      grown == [i \in 1..(address + 1) |->
                  IF i <= Len(g.ret) THEN g.ret[i] ELSE FALSE]
      bits == IF address >= Len(g.ret) THEN grown ELSE g.ret
  IN [self |-> [g.self EXCEPT
                  !._bits = Some([bits EXCEPT ![address + 1] = (value # 0)]),
                  !._raw_bits = None],
      exc |-> ""]

setBit(self, address, value) ==
  LET g == bits_getter(self) IN
  IF address >= Len(g.ret)
    THEN [self |-> g.self, exc |-> "IndexError"]
    ELSE [self |-> [g.self EXCEPT
                      !._bits = Some([g.ret EXCEPT ![address + 1] = (value # 0)]),
                      !._raw_bits = None],
          exc |-> ""]

resetBit(self, address) ==
  LET s == setBit(self, address, 0) IN
  IF s.exc # "" THEN s
  ELSE [self |-> [s.self EXCEPT !._raw_bits = None], exc |-> ""]

getBit(self, address) ==
  LET g == bits_getter(self) IN
  IF address >= Len(g.ret)
    THEN [self |-> g.self, ret |-> FALSE, exc |-> "IndexError"]
    ELSE [self |-> g.self, ret |-> g.ret[address + 1], exc |-> ""]

-----------------------------------------------------------------------------
(* ReadBitsRequestBase, ReadCoilsRequest, ReadDiscreteInputsRequest *)

\* address and count are None (the constructors' default) or an integer
ReadBitsRequestBase_init(function_code, address, count) ==
  [function_code |-> function_code, address |-> address, count |-> count]

ReadCoilsRequest_init(address, count) ==
  ReadBitsRequestBase_init(1, address, count)

ReadDiscreteInputsRequest_init(address, count) ==
  ReadBitsRequestBase_init(2, address, count)

\* struct.pack('>H', x) accepts the integers 0..65535 only
IsUShort(o) == o # None /\ Val(o) >= 0 /\ Val(o) <= 65535

PackH(x) == <<x \div 256, x % 256>>
UnpackH(hi, lo) == 256 * hi + lo

\* an encode that writes the two fields little-endian
ReadBitsRequestBase_encode_LittleEndian(self) ==
  IF IsUShort(self.address) /\ IsUShort(self.count)
    THEN [ret |-> <<Val(self.address) % 256, Val(self.address) \div 256,
                    Val(self.count) % 256, Val(self.count) \div 256>>,
          exc |-> ""]
    ELSE [ret |-> <<>>, exc |-> "struct.error"]

ReadBitsRequestBase_encode(self) ==
  IF IsUShort(self.address) /\ IsUShort(self.count)
    THEN [ret |-> PackH(Val(self.address)) \o PackH(Val(self.count)), exc |-> ""]
    ELSE [ret |-> <<>>, exc |-> "struct.error"]

\* a decode that ignores bytes after the fourth
ReadBitsRequestBase_decode_Truncating(self, data) ==
  IF Len(data) < 4
    THEN [self |-> self, exc |-> "struct.error"]
    ELSE [self |-> [self EXCEPT !.address = Some(UnpackH(data[1], data[2])),
                                !.count = Some(UnpackH(data[3], data[4]))],
          exc |-> ""]

ReadBitsRequestBase_decode(self, data) ==
  IF Len(data) # 4
    THEN [self |-> self, exc |-> "struct.error"]
    ELSE [self |-> [self EXCEPT !.address = Some(UnpackH(data[1], data[2])),
                                !.count = Some(UnpackH(data[3], data[4]))],
          exc |-> ""]

\* a call of the datastore made by execute
StoreCall(fn, self) ==
  [fn |-> fn, function_code |-> self.function_code,
   address |-> self.address, count |-> self.count]

NoResult ==
  [kind |-> "", code |-> "", function_code |-> 0, self |-> NewObject,
   calls |-> <<>>]

\* return self.doException(exception): the result stands for whatever the
\* inherited doException builds for that exception code
doException(self, exception, calls) ==
  [NoResult EXCEPT !.kind = "exception", !.code = exception, !.calls = calls]

\* the response class called with the values the datastore returned
\* a response built from the packed values instead of the values
BuildResponse_Packs(function_code, values, calls) ==
  LET packed ==
        IF values.tag = "list"
          THEN PyStr(pack_bitstring([i \in 1..Len(values.items) |->
                                       Bool(values.items[i])]))
          ELSE values
      r == ReadBitsResponseBase_init(packed)
  IN IF r.exc # ""
       THEN [NoResult EXCEPT !.kind = "raise", !.code = r.exc, !.calls = calls]
       ELSE [NoResult EXCEPT !.kind = "response", !.function_code = function_code,
                             !.self = r.self, !.calls = calls]

BuildResponse(function_code, values, calls) ==
  LET r == ReadBitsResponseBase_init(values) IN
  IF r.exc # ""
    THEN [NoResult EXCEPT !.kind = "raise", !.code = r.exc, !.calls = calls]
    ELSE [NoResult EXCEPT !.kind = "response", !.function_code = function_code,
                          !.self = r.self, !.calls = calls]

\* 1 <= self.count <= 0x7d0; in Python 2 None compares below every integer
CountInRange(count) == count # None /\ 1 <= Val(count) /\ Val(count) <= 2000

\* an execute whose upper bound on the count is one too high
ReadCoilsRequest_execute_OffByOne(self, ctx) ==
  IF ~(self.count # None /\ 1 <= Val(self.count) /\ Val(self.count) <= 2001)
    THEN doException(self, "IllegalValue", <<>>)
  ELSE IF ~ctx.valid
    THEN doException(self, "IllegalAddress", <<StoreCall("validate", self)>>)
  ELSE BuildResponse(1, ctx.values,
         <<StoreCall("validate", self), StoreCall("getValues", self)>>)

\* an execute that asks the datastore before it tests the count
ReadCoilsRequest_execute_ValidatesFirst(self, ctx) ==
  IF ~ctx.valid
    THEN doException(self, "IllegalAddress", <<StoreCall("validate", self)>>)
  ELSE IF ~CountInRange(self.count)
    THEN doException(self, "IllegalValue", <<StoreCall("validate", self)>>)
  ELSE BuildResponse(1, ctx.values,
         <<StoreCall("validate", self), StoreCall("getValues", self)>>)

ReadCoilsRequest_execute(self, ctx) ==
  IF ~CountInRange(self.count)
    THEN doException(self, "IllegalValue", <<>>)
  ELSE IF ~ctx.valid
    THEN doException(self, "IllegalAddress", <<StoreCall("validate", self)>>)
  ELSE BuildResponse(1, ctx.values,
         <<StoreCall("validate", self), StoreCall("getValues", self)>>)

\* an execute that does not ask the datastore to validate the range
ReadDiscreteInputsRequest_execute_NoValidate(self, ctx) ==
  IF ~CountInRange(self.count)
    THEN doException(self, "IllegalValue", <<>>)
  ELSE BuildResponse(2, ctx.values, <<StoreCall("getValues", self)>>)

ReadDiscreteInputsRequest_execute(self, ctx) ==
  IF ~CountInRange(self.count)
    THEN doException(self, "IllegalValue", <<>>)
  ELSE IF ~ctx.valid
    THEN doException(self, "IllegalAddress", <<StoreCall("validate", self)>>)
  ELSE BuildResponse(2, ctx.values,
         <<StoreCall("validate", self), StoreCall("getValues", self)>>)

-----------------------------------------------------------------------------
(* The call just made and the value it returned *)

NoCall ==
  [op |-> "", exc |-> "", address |-> 0, value |-> 0,
   data |-> <<>>, newbits |-> <<>>, values |-> PyNone]

NoRequest == ReadBitsRequestBase_init(0, None, None)
NoContext == [valid |-> FALSE, values |-> PyNone]

NoRet == [bits |-> <<>>, bytes |-> <<>>, n |-> 0, bit |-> FALSE]

Call(op, exc) == [NoCall EXCEPT !.op = op, !.exc = exc]

-----------------------------------------------------------------------------
(* The response under test: one action per method call on it *)

ResponseFrame == UNCHANGED <<req, context, result, wire, peer, peerreq>>

Init ==
  /\ live = FALSE
  /\ resp = NewObject
  /\ last = NoCall
  /\ ret = NoRet
  /\ req = NoRequest
  /\ context = NoContext
  /\ result = NoResult
  /\ wire = <<>>
  /\ peer = NewObject
  /\ peerreq = NoRequest

Construct ==
  /\ ~live
  /\ \E values \in Values :
       LET r == ReadBitsResponseBase_init(values) IN
       /\ live' = (r.exc = "")
       /\ resp' = IF r.exc = "" THEN r.self ELSE NewObject
       /\ last' = [Call("__init__", r.exc) EXCEPT !.values = values]
       /\ ret' = NoRet
  /\ ResponseFrame

GetBits ==
  /\ live
  /\ LET r == bits_getter(resp) IN
       /\ resp' = r.self
       /\ last' = Call("bits", "")
       /\ ret' = [NoRet EXCEPT !.bits = r.ret]
  /\ UNCHANGED live
  /\ ResponseFrame

SetBits ==
  /\ live
  /\ \E newbits \in SeqsUpTo(BOOLEAN, MaxBits) :
       /\ resp' = bits_setter(resp, newbits)
       /\ last' = [Call("bits=", "") EXCEPT !.newbits = newbits]
       /\ ret' = NoRet
  /\ UNCHANGED live
  /\ ResponseFrame

GetRaw ==
  /\ live
  /\ LET r == raw_bits_getter(resp) IN
       /\ resp' = r.self
       /\ last' = Call("raw_bits", "")
       /\ ret' = [NoRet EXCEPT !.bytes = r.ret]
  /\ UNCHANGED live
  /\ ResponseFrame

SetRaw ==
  /\ live
  /\ \E newbits \in SeqsUpTo(ByteVals, MaxRaw) :
       /\ resp' = raw_bits_setter(resp, newbits)
       /\ last' = [Call("raw_bits=", "") EXCEPT !.data = newbits]
       /\ ret' = NoRet
  /\ UNCHANGED live
  /\ ResponseFrame

GetByteCount ==
  /\ live
  /\ LET r == byte_count(resp) IN
       /\ resp' = r.self
       /\ last' = Call("byte_count", r.exc)
       /\ ret' = [NoRet EXCEPT !.n = r.ret]
  /\ UNCHANGED live
  /\ ResponseFrame

Encode ==
  /\ live
  /\ LET r == ReadBitsResponseBase_encode(resp) IN
       /\ resp' = r.self
       /\ last' = Call("encode", r.exc)
       /\ ret' = [NoRet EXCEPT !.bytes = r.ret]
  /\ UNCHANGED live
  /\ ResponseFrame

Decode ==
  /\ live
  /\ \E data \in SeqsUpTo(ByteVals, MaxRaw + 1) :
       LET r == ReadBitsResponseBase_decode(resp, data) IN
       /\ resp' = r.self
       /\ last' = [Call("decode", r.exc) EXCEPT !.data = data]
       /\ ret' = NoRet
  /\ UNCHANGED live
  /\ ResponseFrame

SetBit ==
  /\ live
  /\ \E address \in 0..MaxIndex, value \in BitArgs :
       LET r == setBit(resp, address, value) IN
       /\ resp' = r.self
       /\ last' = [Call("setBit", r.exc) EXCEPT !.address = address,
                                                 !.value = value]
       /\ ret' = NoRet
  /\ UNCHANGED live
  /\ ResponseFrame

ResetBit ==
  /\ live
  /\ \E address \in 0..MaxIndex :
       LET r == resetBit(resp, address) IN
       /\ resp' = r.self
       /\ last' = [Call("resetBit", r.exc) EXCEPT !.address = address]
       /\ ret' = NoRet
  /\ UNCHANGED live
  /\ ResponseFrame

GetBit ==
  /\ live
  /\ \E address \in 0..MaxIndex :
       LET r == getBit(resp, address) IN
       /\ resp' = r.self
       /\ last' = [Call("getBit", r.exc) EXCEPT !.address = address]
       /\ ret' = [NoRet EXCEPT !.bit = r.ret]
  /\ UNCHANGED live
  /\ ResponseFrame

Next ==
  \/ Construct
  \/ GetBits
  \/ SetBits
  \/ GetRaw
  \/ SetRaw
  \/ GetByteCount
  \/ Encode
  \/ Decode
  \/ SetBit
  \/ ResetBit
  \/ GetBit

Spec == Init /\ [][Next]_vars

-----------------------------------------------------------------------------
(* The request under test: constructed with any address and count, then    *)
(* encoded, decoded and executed against a datastore                       *)

\* what the datastore's getValues returns
\* (a list of bools or ints, or a byte string)
StoreValues ==
  {PyList(s) : s \in SeqsUpTo({e \in Elem : e.t = "int" /\ e.v # 1}, MaxBits)}
    \cup {PyStr(<<1>>)}

\* a datastore: its answer to validate and to getValues
Contexts == [valid : BOOLEAN, values : StoreValues]

RequestFrame == UNCHANGED <<live, resp, ret, peer>>

InitRequest ==
  /\ live = FALSE
  /\ resp = NewObject
  /\ last = NoCall
  /\ ret = NoRet
  /\ \E address \in Addresses, count \in Counts :
       req \in {ReadCoilsRequest_init(Some(address), Some(count)),
                ReadDiscreteInputsRequest_init(Some(address), Some(count))}
  /\ context = NoContext
  /\ result = NoResult
  /\ wire = <<>>
  /\ peer = NewObject
  /\ peerreq = NoRequest

RequestEncode ==
  /\ LET r == ReadBitsRequestBase_encode(req) IN
       /\ wire' = r.ret
       /\ last' = Call("encode", r.exc)
  /\ peerreq' = NoRequest
  /\ context' = NoContext
  /\ result' = NoResult
  /\ UNCHANGED req
  /\ RequestFrame

\* the receiving side: a request of the same variant, constructed without
\* arguments, decodes the bytes on the wire
RequestDecodeWire ==
  /\ last.op = "encode" /\ last.exc = ""
  /\ LET fresh == ReadBitsRequestBase_init(req.function_code, None, None)
         r == ReadBitsRequestBase_decode(fresh, wire)
     IN /\ peerreq' = r.self
        /\ last' = [Call("decode_wire", r.exc) EXCEPT !.data = wire]
  /\ UNCHANGED <<req, context, result, wire>>
  /\ RequestFrame

RequestDecode ==
  /\ \E data \in SeqsUpTo(ReqByteVals, MaxData) :
       LET r == ReadBitsRequestBase_decode(req, data) IN
       /\ req' = r.self
       /\ last' = [Call("decode", r.exc) EXCEPT !.data = data]
  /\ wire' = <<>>
  /\ peerreq' = NoRequest
  /\ context' = NoContext
  /\ result' = NoResult
  /\ RequestFrame

ExecuteCoils ==
  /\ req.function_code = 1
  /\ \E ctx \in Contexts :
       /\ context' = ctx
       /\ result' = ReadCoilsRequest_execute(req, ctx)
  /\ last' = Call("execute", "")
  /\ wire' = <<>>
  /\ peerreq' = NoRequest
  /\ UNCHANGED req
  /\ RequestFrame

ExecuteDiscreteInputs ==
  /\ req.function_code = 2
  /\ \E ctx \in Contexts :
       /\ context' = ctx
       /\ result' = ReadDiscreteInputsRequest_execute(req, ctx)
  /\ last' = Call("execute", "")
  /\ wire' = <<>>
  /\ peerreq' = NoRequest
  /\ UNCHANGED req
  /\ RequestFrame

NextRequest ==
  \/ RequestEncode
  \/ RequestDecodeWire
  \/ RequestDecode
  \/ ExecuteCoils
  \/ ExecuteDiscreteInputs

SpecRequest == InitRequest /\ [][NextRequest]_vars

-----------------------------------------------------------------------------
(* The response round trip: a response holding a bit list is encoded, the  *)
(* bytes are decoded into a fresh response, and its bits are read          *)

\* the bit list as the Python list of ints handed to the constructor
AsList(b) == PyList([i \in 1..Len(b) |-> [t |-> "int", v |-> IF b[i] THEN 1 ELSE 0]])

InitRoundTrip ==
  /\ live = TRUE
  /\ \E b \in SeqsUpTo(BOOLEAN, MaxLen) :
       /\ resp = ReadBitsResponseBase_init(AsList(b)).self
       /\ last = [Call("__init__", "") EXCEPT !.newbits = b]
  /\ ret = NoRet
  /\ req = NoRequest
  /\ context = NoContext
  /\ result = NoResult
  /\ wire = <<>>
  /\ peer = NewObject
  /\ peerreq = NoRequest

RoundTripFrame == UNCHANGED <<live, req, context, result, peerreq>>

RoundTripEncode ==
  /\ last.op = "__init__"
  /\ LET r == ReadBitsResponseBase_encode(resp) IN
       /\ resp' = r.self
       /\ wire' = r.ret
       /\ last' = [last EXCEPT !.op = "encode", !.exc = r.exc]
  /\ UNCHANGED <<ret, peer>>
  /\ RoundTripFrame

RoundTripDecode ==
  /\ last.op = "encode" /\ last.exc = ""
  /\ LET fresh == ReadBitsResponseBase_init(PyNone).self
         r == ReadBitsResponseBase_decode(fresh, wire)
     IN /\ peer' = r.self
        /\ last' = [last EXCEPT !.op = "decode", !.exc = r.exc, !.data = wire]
  /\ UNCHANGED <<resp, ret, wire>>
  /\ RoundTripFrame

RoundTripGetBits ==
  /\ last.op = "decode" /\ last.exc = ""
  /\ LET r == bits_getter(peer) IN
       /\ peer' = r.self
       /\ ret' = [NoRet EXCEPT !.bits = r.ret]
       /\ last' = [last EXCEPT !.op = "bits"]
  /\ UNCHANGED <<resp, wire>>
  /\ RoundTripFrame

NextRoundTrip ==
  \/ RoundTripEncode
  \/ RoundTripDecode
  \/ RoundTripGetBits

SpecRoundTrip == InitRoundTrip /\ [][NextRoundTrip]_vars

-----------------------------------------------------------------------------
(* Properties of the response (checked under Spec) *)

\* what get_byte_count(), get_raw() and encode() return in the current state
ByteCountNow == byte_count(resp)
RawNow == raw_bits_getter(resp).ret
BitsNow == bits_getter(resp).ret
EncodeNow == ReadBitsResponseBase_encode(resp)

\* C1: in every state of a response, whenever get_byte_count() returns a
\* value, that value is the length of get_raw(), whatever byte count decoded
\* data declared.
C1_ByteCountIsRawLength ==
  (live /\ ByteCountNow.exc = "") => ByteCountNow.ret = Len(RawNow)

\* C4: set_bit(i, v) with 0 <= i < len(get_bits()) succeeds; afterwards
\* get_bit(i) returns (v != 0), every other bit reads as before the call and
\* the number of bits is unchanged.
C4_SetBitFrame ==
  [][(last'.op = "setBit" /\ last'.address < Len(BitsNow)) =>
       LET i == last'.address
           before == BitsNow
           after == bits_getter(resp').ret
       IN /\ last'.exc = ""
          /\ getBit(resp', i).exc = ""
          /\ getBit(resp', i).ret = (last'.value # 0)
          /\ Len(after) = Len(before)
          /\ \A j \in 1..Len(before) : j # i + 1 => after[j] = before[j]]_vars

\* C4 witness: set_bit(1, 2) on [true, false, false] gave [true, true, false]
C4_Witness ==
  /\ last.op = "setBit" /\ last.exc = ""
  /\ last.address = 1 /\ last.value = 2
  /\ resp._bits = Some(<<TRUE, TRUE, FALSE>>)

\* C8: in every state of a response in which get_byte_count() returns a
\* value and the raw representation is at most 255 bytes, encode() returns
\* one byte equal to get_byte_count() followed by get_raw(); a response
\* constructed from [true, false, true] encodes to 0x01 0x05.
C8_EncodeIsByteCountThenRaw ==
  /\ (live /\ ByteCountNow.exc = "" /\ Len(RawNow) <= 255) =>
       (EncodeNow.exc = "" /\ EncodeNow.ret = <<ByteCountNow.ret>> \o RawNow)
  /\ (live /\ last.op = "__init__"
        /\ last.values = PyList(<<[t |-> "int", v |-> 1], [t |-> "int", v |-> 0],
                                  [t |-> "int", v |-> 1]>>)) =>
       EncodeNow.ret = <<1, 5>>

\* a value that is neither a sequence of boolean/integer values nor a
\* byte string: a float, or a list holding a float
Unsupported(values) ==
  \/ values.tag = "float"
  \/ values.tag = "list" /\ \E i \in 1..Len(values.items) : values.items[i].t = "float"

\* C9: constructing a response from a value that is neither a sequence of
\* boolean/integer values nor a byte string fails with a construction error
\* and leaves no response object.
C9_UnsupportedValueRejected ==
  (last.op = "__init__" /\ Unsupported(last.values)) =>
    (last.exc = "TypeError" /\ ~live)

\* C10: after a successful set_bit or reset_bit, whenever the next
\* get_byte_count() returns a value, it is the length of the raw
\* representation and not a previously cached value.
C10_SetBitInvalidatesByteCount ==
  (live /\ last.op \in {"setBit", "resetBit"} /\ last.exc = ""
     /\ ByteCountNow.exc = "") =>
    ByteCountNow.ret = Len(RawNow)

-----------------------------------------------------------------------------
(* Properties of the request (checked under SpecRequest) *)

\* 1 <= count <= 2000
InRange(count) == count # None /\ Val(count) \in 1..2000

Executed == last.op = "execute"
IsException(code) == result.kind = "exception" /\ result.code = code

\* C2 as stated: whenever the datastore's validate answers false, execute
\* yields an IllegalAddress exception response, whatever the count.
C2_Original == (Executed /\ ~context.valid) => IsException("IllegalAddress")

\* C2 as amended: whenever the count lies in [1, 2000] and the datastore's
\* validate answers false, execute yields an IllegalAddress exception
\* response.
C2_IllegalAddress ==
  (Executed /\ InRange(req.count) /\ ~context.valid) =>
    IsException("IllegalAddress")

\* C2 witness: a discrete inputs request for 2000 bits refused by the datastore
C2_Witness ==
  /\ Executed /\ req.function_code = 2 /\ req.count = Some(2000)
  /\ ~context.valid /\ IsException("IllegalAddress")

\* C3: a request whose count is outside [1, 2000], executed against any
\* datastore, yields an IllegalValue exception response and never a normal
\* response.
C3_IllegalValue ==
  (Executed /\ ~InRange(req.count)) =>
    IsException("IllegalValue")

\* C3 witness: a coils request for 2001 bits against a datastore that would
\* have accepted it and returned values
C3_Witness ==
  /\ Executed /\ req.function_code = 1 /\ req.count = Some(2001)
  /\ context.valid /\ context.values = PyList(<<[t |-> "int", v |-> 2]>>)
  /\ IsException("IllegalValue")

IsByte(x) == x \in 0..255

\* C6: for address in [0, 65535] and count in [1, 2000], encode() produces
\* exactly 4 bytes, the big-endian address then the big-endian count, and a
\* request of the same variant that decodes them has the same address and
\* count.
C6_RequestRoundTrip ==
  (req.address # None /\ Val(req.address) \in 0..65535 /\ InRange(req.count)) =>
    /\ last.op \in {"encode", "decode_wire"} =>
         /\ Len(wire) = 4
         /\ \A i \in 1..4 : IsByte(wire[i])
         /\ 256 * wire[1] + wire[2] = Val(req.address)
         /\ 256 * wire[3] + wire[4] = Val(req.count)
    /\ last.op = "encode" => last.exc = ""
    /\ last.op = "decode_wire" => (last.exc = "" /\ peerreq = req)

\* C6 witness: address 0x1234, count 2000 went over the wire as 12 34 07 d0
C6_Witness ==
  /\ last.op = "decode_wire" /\ wire = <<18, 52, 7, 208>>
  /\ peerreq.address = Some(4660) /\ peerreq.count = Some(2000)

\* C7: decode(data) with len(data) != 4 raises an error and leaves the
\* request's address and count as they were.
C7_BadLengthRejected ==
  [][(last'.op = "decode" /\ Len(last'.data) # 4) =>
       (last'.exc # "" /\ req' = req)]_vars

\* C7 witness: a 5 byte payload was refused
C7_Witness ==
  /\ last.op = "decode" /\ Len(last.data) = 5 /\ last.exc = "struct.error"

-----------------------------------------------------------------------------
(* Properties of the round trip (checked under SpecRoundTrip) *)

\* padded is bits followed by false values up to the next multiple of 8
IsPadded(bits, padded) ==
  /\ Len(padded) % 8 = 0
  /\ Len(padded) >= Len(bits) /\ Len(padded) < Len(bits) + 8
  /\ \A i \in 1..Len(bits) : padded[i] = bits[i]
  /\ \A i \in (Len(bits) + 1)..Len(padded) : padded[i] = FALSE

\* C5: the bits read from a fresh response that decoded the encoding of a
\* response holding b are b followed by false values up to the next multiple
\* of 8, and equal b exactly when len(b) is a multiple of 8.
C5_RoundTripPads ==
  last.op = "bits" =>
    /\ IsPadded(last.newbits, ret.bits)
    /\ (ret.bits = last.newbits) <=> (Len(last.newbits) % 8 = 0)

\* C5 witness: 9 bits, the last one set, came back as 16 bits
C5_Witness ==
  /\ last.op = "bits" /\ Len(last.newbits) = 9 /\ last.newbits[9]
  /\ Len(ret.bits) = 16 /\ ret.bits[9] /\ ~ret.bits[10]

-----------------------------------------------------------------------------
(* Further properties of the response (checked under Spec) *)

\* ceil(n / 8)
BytesFor(n) == (n + 7) \div 8

\* C11: after set_bits(seq), from any state, get_bits() returns seq, get_raw()
\* returns pack(seq) and get_byte_count() returns its length; after
\* set_raw(b), get_raw() returns b, get_bits() returns unpack(b) and
\* get_byte_count() returns len(b).  Nothing cached before is returned.
C11_SettersReplace ==
  /\ last.op = "bits=" =>
       /\ BitsNow = last.newbits
       /\ RawNow = pack_bitstring(last.newbits)
       /\ ByteCountNow.exc = ""
       /\ ByteCountNow.ret = BytesFor(Len(last.newbits))
  /\ last.op = "raw_bits=" =>
       /\ RawNow = last.data
       /\ BitsNow = unpack_bitstring(last.data)
       /\ ByteCountNow.exc = ""
       /\ ByteCountNow.ret = Len(last.data)

\* C11 witness: set_bits([true, false, true]) reads back as the byte 0x05
C11_Witness ==
  /\ last.op = "bits=" /\ last.newbits = <<TRUE, FALSE, TRUE>>
  /\ RawNow = <<5>> /\ ByteCountNow.ret = 1

\* C12: after a successful set_bit or reset_bit the next get_raw() and
\* encode() return the packing of the updated bit list, never bytes cached
\* before; reset_bit(i) leaves the response in the state set_bit(i, false)
\* leaves it in.
C12_SetBitInvalidatesRaw ==
  [][(last'.op \in {"setBit", "resetBit"} /\ last'.exc = "") =>
       LET updated == [BitsNow EXCEPT ![last'.address + 1] =
                         (last'.op = "setBit" /\ last'.value # 0)]
           raw == raw_bits_getter(resp').ret
       IN /\ bits_getter(resp').ret = updated
          /\ raw = pack_bitstring(bits_getter(resp').ret)
          /\ ReadBitsResponseBase_encode(resp').ret =
               <<BytesFor(Len(updated))>> \o raw
          /\ last'.op = "resetBit" =>
               resp' = setBit(resp, last'.address, 0).self]_vars

\* C12 witness: after reset_bit(0) an 8 bit list packs to the byte 0x00
C12_Witness ==
  /\ last.op = "resetBit" /\ last.exc = "" /\ last.address = 0
  /\ Len(BitsNow) = 8 /\ RawNow = <<0>>

\* C13: decode(data) with len(data) >= 1 succeeds from any state, whether or
\* not data[0] is len(data) - 1; afterwards get_raw() returns data[1:] and
\* get_bits() returns unpack(data[1:]), 8 entries per byte, never bits cached
\* before.
C13_DecodeReplaces ==
  (last.op = "decode" /\ Len(last.data) >= 1) =>
    /\ last.exc = ""
    /\ RawNow = Tail(last.data)
    /\ BitsNow = unpack_bitstring(Tail(last.data))
    /\ Len(BitsNow) = 8 * (Len(last.data) - 1)

\* C13 witness: one raw byte decoded under a declared count of 130
C13_Witness ==
  /\ last.op = "decode" /\ last.data = <<130, 130>>
  /\ BitsNow[2] /\ BitsNow[8] /\ ~BitsNow[1] /\ Len(BitsNow) = 8

\* C16: whenever the bit list and the raw bytes are both populated, the raw
\* bytes are the packing of the bit list.
C16_CacheCoherent ==
  (live /\ resp._bits # None /\ resp._raw_bits # None) =>
    Val(resp._raw_bits) = pack_bitstring(Val(resp._bits))

\* C16 witness: both representations cached, 8 bits against the byte 0x82
C16_Witness ==
  /\ live /\ resp._raw_bits = Some(<<130>>)
  /\ resp._bits # None /\ Len(Val(resp._bits)) = 8

\* C17: get_bits(), get_raw(), get_bit(i) and encode() leave what get_bits(),
\* get_raw() and encode() return afterwards as it was before the call.
C17_ReadsArePure ==
  [][last'.op \in {"bits", "raw_bits", "getBit", "encode"} =>
       /\ bits_getter(resp').ret = BitsNow
       /\ raw_bits_getter(resp').ret = RawNow
       /\ ReadBitsResponseBase_encode(resp').ret = EncodeNow.ret]_vars

\* C17 witness: get_raw() has packed and cached a 3 bit list
C17_Witness ==
  /\ last.op = "raw_bits" /\ ret.bytes = <<5>>
  /\ resp._bits = Some(<<TRUE, FALSE, TRUE>>) /\ resp._raw_bits = Some(<<5>>)

\* C18: set_bit(i, v) or reset_bit(i) with i >= len(get_bits()) fails with
\* an index error and leaves what get_bits(), get_raw() and encode() return
\* as it was before the call.
C18_BadIndexRejected ==
  [][(last'.op \in {"setBit", "resetBit"} /\ last'.address >= Len(BitsNow)) =>
       /\ last'.exc = "IndexError"
       /\ bits_getter(resp').ret = BitsNow
       /\ raw_bits_getter(resp').ret = RawNow
       /\ ReadBitsResponseBase_encode(resp').ret = EncodeNow.ret]_vars

\* C18 witness: set_bit(3, v) refused on a 3 bit list
C18_Witness ==
  /\ last.op = "setBit" /\ last.exc = "IndexError" /\ last.address = 3
  /\ resp._bits # None /\ Len(Val(resp._bits)) = 3

\* C19: after decode(data) with len(data) >= 1, encode() returns the byte
\* len(data) - 1 followed by data[1:], which is data exactly when data[0] is
\* len(data) - 1, while get_byte_count() returns the declared data[0].
C19_EncodeNormalisesPrefix ==
  (last.op = "decode" /\ Len(last.data) >= 1) =>
    /\ EncodeNow.exc = ""
    /\ EncodeNow.ret = <<Len(last.data) - 1>> \o Tail(last.data)
    /\ (EncodeNow.ret = last.data) <=> (last.data[1] = Len(last.data) - 1)
    /\ ByteCountNow.exc = ""
    /\ ByteCountNow.ret = last.data[1]

\* C19 witness: one raw byte decoded under a declared count of 130
C19_Witness ==
  /\ last.op = "decode" /\ last.data = <<130, 1>>
  /\ EncodeNow.ret = <<1, 1>> /\ ByteCountNow.ret = 130

-----------------------------------------------------------------------------
(* Further properties of the request (checked under SpecRequest) *)

\* the number of calls of the datastore function fn that execute made
Calls(fn) == Cardinality({i \in 1..Len(result.calls) : result.calls[i].fn = fn})

\* C14: an execution calls validate only if 1 <= count <= 2000 and at most
\* once, calls getValues only after validate answered true and at most once,
\* produces a normal response only after getValues was called, and ends in
\* a normal response or an exception response.
C14_ExecuteOrder ==
  Executed =>
    /\ result.kind \in {"response", "exception"}
    /\ Calls("validate") <= 1 /\ Calls("getValues") <= 1
    /\ Calls("validate") = 1 => InRange(req.count)
    /\ Calls("getValues") = 1 =>
         /\ context.valid
         /\ Len(result.calls) = 2
         /\ result.calls[1].fn = "validate" /\ result.calls[2].fn = "getValues"
    /\ result.kind = "response" => Calls("getValues") = 1

\* C14 witness: an execution that validated, fetched and answered normally
C14_Witness ==
  /\ Executed /\ result.kind = "response" /\ req.function_code = 1
  /\ Calls("validate") = 1 /\ Calls("getValues") = 1

\* what execute returned for a count in [1, 2000] the datastore accepted
C15_Outcome ==
  LET values == context.values
      expected == [i \in 1..Len(values.items) |-> values.items[i].v # 0]
      query(fn) == [fn |-> fn, function_code |-> req.function_code,
                    address |-> req.address, count |-> req.count]
      response == result.self
  IN /\ req.function_code \in {1, 2}
     /\ result.calls = <<query("validate"), query("getValues")>>
     /\ result.kind = "response"
     /\ result.function_code = req.function_code
     /\ values.tag = "list" =>
          /\ bits_getter(response).ret = expected
          /\ Len(bits_getter(response).ret) = Len(values.items)
          /\ Len(raw_bits_getter(response).ret) = BytesFor(Len(values.items))
          /\ ReadBitsResponseBase_encode(response).ret[1] =
               BytesFor(Len(values.items))
     /\ values.tag = "str" =>
          raw_bits_getter(response).ret = values.bytes

\* C15: when count is in [1, 2000] and validate answers true, execute asks
\* the datastore with the request's function code, address and count and
\* returns a normal response with that function code whose bits are the
\* boolean coercion of the returned values, neither truncated nor padded to
\* count, encoded with a byte count of ceil(len(returned) / 8); the request
\* is left unchanged.
C15_ExecuteFetches ==
  [][(last'.op = "execute" /\ InRange(req.count) /\ context'.valid) =>
       (C15_Outcome' /\ req' = req)]_vars

\* C15 witness: 2000 bits asked, 3 values returned, 1 byte encoded
C15_Witness ==
  /\ Executed /\ req.function_code = 2 /\ req.count = Some(2000)
  /\ context.valid
  /\ context.values = PyList(<<[t |-> "int", v |-> 2], [t |-> "int", v |-> 0],
                               [t |-> "int", v |-> 2]>>)
  /\ bits_getter(result.self).ret = <<TRUE, FALSE, TRUE>>
  /\ ReadBitsResponseBase_encode(result.self).ret = <<1, 5>>

====
